---- MODULE Spec2Model ----
(***************************************************************************)
(* Model of the resumable fetch orchestrator of app.py                     *)
(* (process_method2_file) together with its checkpoint store               *)
(* (save_processing_state / load_processing_state and the retention sweep  *)
(* cleanup_old_state_files); of sessions that save the same state file     *)
(* side by side; of align_data_for_evaluation and evaluate_dataset of      *)
(* app.py; and of the retry loops of DatasetEvaluator                      *)
(* (evaluate_dataset.py).                                                  *)
(*                                                                         *)
(* Record indices are 1..n here (pandas uses 0..n-1).  Cell values are     *)
(* strings; NaN stands for the pandas missing value of an empty cell.      *)
(***************************************************************************)
EXTENDS Integers, Sequences, FiniteSets, TLC

\* ---------------------------------------------------------------- bounds
MaxRecs == 2        \* records of an uploaded dataset (Init)
MaxRuns == 2        \* runs of process_method2_file on the same upload (Init)
BigRuns == 1        \* runs on the large uploads (InitBig)
BigExtra == 0       \* fully populated records appended to a large upload
MaxSessions == 2    \* browser sessions that process the same upload
MaxSaves == 2       \* calls of save_processing_state in one session's run
MaxAlign == 3       \* records handed to align_data_for_evaluation
MaxEval == 2        \* records handed to evaluate_dataset as they come
MaxSamples == 11    \* samples of a dataset handed to DatasetEvaluator
MaxJoin == 5        \* score rows, and records, handed to a consumer of results
MaxFiles == 3       \* aged state files in the directory the sweep lists
MaxPool == 6        \* fetch tasks, of both kinds together, of one run of app.py
MaxScript == 2      \* questions handed to the pool of a stand-alone script

\* ------------------------------------------------------- program constants
SaveEvery == 10     \* save_counter % 10 == 0
AgeCeiling == 14    \* age_days > 14
AgeWhenBig == 7     \* dir_size_mb > 100 and age_days > 7
AgeWhenMany == 3    \* len(files_info) > 50 and age_days > 3
SizeLimit == 100    \* dir_size_mb > 100
CountLimit == 50    \* len(files_info) > 50
max_workers == 5    \* ThreadPoolExecutor(max_workers=5) of process_method2_file
script_workers == 4 \* process_file_parallel(excel_file, max_workers=4)
save_retries == 3   \* safe_update_excel: max_retries = 3
max_retries == 3    \* run_evaluation and _evaluate_batch: max_retries: int = 3
base_delay == 5     \* _evaluate_batch: base_delay = 5

\* ------------------------------------------------------------ cell values
NaN == "<NaN>"

\* str(v).strip() for the cell values of the model
Strip(v) == IF v = " " THEN "" ELSE v

\* pd.isna(v) or str(v).strip() == ""
IsBlank(v) == v = NaN \/ Strip(v) = ""

\* pd.notna(v) and str(v).strip()
NotBlank(v) == v # NaN /\ Strip(v) # ""

Range(s) == {s[i] : i \in DOMAIN s}

RECURSIVE SortedSeq(_)
\* list(a_set): the elements of a set of indices as a list
SortedSeq(S) ==
    IF S = {} THEN <<>>
    ELSE LET m == CHOOSE x \in S : \A y \in S : x <= y
         IN  <<m>> \o SortedSeq(S \ {m})

\* ------------------------------------------------------ checkpoint store
\* The file state_<hash>.pkl of the uploaded dataset: absent, unreadable, or
\* a pickled state_data.
Absent == [kind |-> "absent", df |-> <<>>, answer_progress |-> <<>>, context_progress |-> <<>>]
Corrupt == [kind |-> "corrupt", df |-> <<>>, answer_progress |-> <<>>, context_progress |-> <<>>]
None == [kind |-> "none", df |-> <<>>, answer_progress |-> <<>>, context_progress |-> <<>>]

\* df[essential_columns].to_dict('records')
MinimalRecords(frame) ==
    [i \in DOMAIN frame |->
        [q |-> frame[i].q, a |-> frame[i].a, r |-> frame[i].r, c |-> frame[i].c]]

StateDataSwapped(frame, ap, cp) ==
    [kind |-> "pickle",
     df |-> MinimalRecords(frame),
     answer_progress |-> SortedSeq(cp),
     context_progress |-> SortedSeq(ap)]

\* state_data of save_processing_state
StateData(frame, ap, cp) ==
    [kind |-> "pickle",
     df |-> MinimalRecords(frame),
     answer_progress |-> SortedSeq(ap),
     context_progress |-> SortedSeq(cp)]

ShouldDeleteWhenCrowded(age, big, many) ==
    \/ age > AgeCeiling
    \/ (big \/ many) /\ age > AgeWhenMany

\* the tier conditions of cleanup_old_state_files for one file
ShouldDelete(age, big, many) ==
    \/ age > AgeCeiling
    \/ big /\ age > AgeWhenBig
    \/ many /\ age > AgeWhenMany

\* cleanup_old_state_files, as it acts on the file of this fingerprint
Sweep(f, age, big, many) ==
    IF f.kind # "absent" /\ ShouldDelete(age, big, many) THEN Absent ELSE f

\* the ways the write of save_processing_state can end: it returns True, or
\* open() raises, or pickle.dump raises after open() truncated the file
SaveOutcomes == {"ok", "open_fails", "dump_fails"}

\* what the sweep can find: <<age in days of a file left by an earlier run,
\* dir_size_mb > 100, len(files_info) > 50>>, one case per tier and one that
\* no tier covers
Situations == {<<20, FALSE, FALSE>>, <<10, TRUE, FALSE>>, <<5, FALSE, TRUE>>,
               <<5, FALSE, FALSE>>}

\* save_processing_state: the file it leaves.  A file written earlier in the
\* same run (fresh) is 0 days old when the sweep looks at it.
SaveFile(f, fresh, sit, frame, ap, cp, outcome) ==
    CASE outcome = "ok"         -> StateData(frame, ap, cp)
      [] outcome = "open_fails" -> Sweep(f, IF fresh THEN 0 ELSE sit[1], sit[2], sit[3])
      [] outcome = "dump_fails" -> Corrupt

\* the ways one call of save_processing_state can go: <<what the sweep finds,
\* how the write ends>>; what the sweep finds shows only when open() raises
Quiet == <<5, FALSE, FALSE>>

SaveWays ==
    {<<Quiet, "ok">>, <<Quiet, "dump_fails">>} \cup {<<sit, "open_fails">> : sit \in Situations}

\* whether the file save_processing_state leaves was written in this run
SaveFresh(fresh, outcome) == IF outcome = "open_fails" THEN fresh ELSE TRUE

LoadStateAsFound(f) == IF f.kind = "absent" THEN None ELSE f

\* load_processing_state
LoadState(f) == IF f.kind = "pickle" THEN f ELSE None

\* ------------------------------------------------------------ the upload
\* The rows an uploaded sheet may hold (x is a column outside the essential
\* four).
NeedsBoth == [q |-> "Q", a |-> " ", r |-> NaN, c |-> NaN, x |-> "X"]
NoQuestion == [q |-> NaN, a |-> NaN, r |-> NaN, c |-> NaN, x |-> "X"]
Complete == [q |-> "Q", a |-> "U", r |-> "R", c |-> "U", x |-> "X"]
NeedsAnswer == [q |-> "Q", a |-> NaN, r |-> "R", c |-> "U", x |-> "X"]
NeedsContext == [q |-> "Q", a |-> "U", r |-> NaN, c |-> "", x |-> "X"]

RowRank(row) ==
    CASE row = NeedsBoth -> 1
      [] row = NoQuestion -> 2
      [] row = Complete -> 3
      [] row = NeedsAnswer -> 4
      [] row = NeedsContext -> 5

Rows == {NeedsBoth, NoQuestion, Complete, NeedsAnswer, NeedsContext}

\* the uploads of Init: MaxRecs rows, up to the order of the rows, at most
\* one of them lacking both its answer and its context
Uploads ==
    {u \in [1..MaxRecs -> Rows] :
        /\ \A i \in 1..(MaxRecs - 1) : RowRank(u[i]) <= RowRank(u[i + 1])
        /\ Cardinality({i \in 1..MaxRecs : u[i] = NeedsBoth}) <= 1}

\* the uploads of InitBig: na rows without an answer and nc rows without a
\* context among SaveEvery + BigExtra rows
BigUpload(na, nc) ==
    [i \in 1..(SaveEvery + BigExtra) |->
        [q |-> "Q",
         a |-> IF i <= na THEN NaN ELSE "U",
         r |-> NaN,
         c |-> IF i <= nc THEN NaN ELSE "U",
         x |-> "X"]]

BigUploads == {BigUpload(SaveEvery, 1), BigUpload(SaveEvery - 1, 2)}

\* ------------------------------------------------------ the fetch client
\* what the future of query_answer can yield: a result, or it raises
AnswerReplies(withEmpty) ==
    {[raised |-> FALSE, success |-> TRUE, ai_answer |-> "F", reference |-> "G"],
     [raised |-> FALSE, success |-> FALSE, ai_answer |-> "", reference |-> ""],
     [raised |-> TRUE, success |-> FALSE, ai_answer |-> "", reference |-> ""]}
    \cup (IF withEmpty
          THEN {[raised |-> FALSE, success |-> TRUE, ai_answer |-> "", reference |-> ""]}
          ELSE {})

\* what the future of query_contexts can yield
ContextReplies(withEmpty) ==
    {[raised |-> FALSE, success |-> TRUE, contexts |-> "F"],
     [raised |-> FALSE, success |-> FALSE, contexts |-> ""],
     [raised |-> TRUE, success |-> FALSE, contexts |-> ""]}
    \cup (IF withEmpty
          THEN {[raised |-> FALSE, success |-> TRUE, contexts |-> ""]}
          ELSE {})

\* ------------------------------------------------------- the orchestrator
MergeRowsEvenBlank(frame, prev) ==
    [i \in DOMAIN frame |->
        IF prev.kind = "pickle" /\ i \in DOMAIN prev.df
        THEN [frame[i] EXCEPT !.a = prev.df[i].a, !.r = prev.df[i].r, !.c = prev.df[i].c]
        ELSE frame[i]]

\* lines 362-380: the rows after the saved rows are merged into the upload
MergeRows(frame, prev) ==
    [i \in DOMAIN frame |->
        IF prev.kind = "pickle" /\ i \in DOMAIN prev.df
        THEN LET row == prev.df[i]
                 withA == IF NotBlank(row.a)
                          THEN [frame[i] EXCEPT !.a = row.a, !.r = row.r]
                          ELSE frame[i]
             IN  IF NotBlank(row.c) THEN [withA EXCEPT !.c = row.c] ELSE withA
        ELSE frame[i]]

\* lines 359-376: answer_progress after the merge
MergeAnswerProgress(frame, prev) ==
    IF prev.kind = "pickle"
    THEN Range(prev.answer_progress)
         \cup {i \in DOMAIN prev.df \cap DOMAIN frame : NotBlank(prev.df[i].a)}
    ELSE {}

\* lines 360-380: context_progress after the merge
MergeContextProgress(frame, prev) ==
    IF prev.kind = "pickle"
    THEN Range(prev.context_progress)
         \cup {i \in DOMAIN prev.df \cap DOMAIN frame : NotBlank(prev.df[i].c)}
    ELSE {}

Indices(frame) == [i \in 1..Len(frame) |-> i]

BuildAnswerTasksIgnoringProgress(frame, ap) ==
    SelectSeq(Indices(frame), LAMBDA i : ~IsBlank(frame[i].q) /\ IsBlank(frame[i].a))

\* lines 393-401: answer_tasks
BuildAnswerTasks(frame, ap) ==
    SelectSeq(Indices(frame),
        LAMBDA i : ~IsBlank(frame[i].q) /\ i \notin ap /\ IsBlank(frame[i].a))

BuildContextTasksAnyQuestion(frame, cp) ==
    SelectSeq(Indices(frame), LAMBDA i : i \notin cp /\ IsBlank(frame[i].c))

\* lines 393-405: context_tasks
BuildContextTasks(frame, cp) ==
    SelectSeq(Indices(frame),
        LAMBDA i : ~IsBlank(frame[i].q) /\ i \notin cp /\ IsBlank(frame[i].c))

\* lines 435-436 and 468-469: future.result() returned and reports success
Succeeded(reply) == ~reply.raised /\ reply.success

\* lines 436-438: the rows after one answer future was handled
ApplyAnswer(frame, i, reply) ==
    IF Succeeded(reply)
    THEN [frame EXCEPT ![i].a = reply.ai_answer, ![i].r = reply.reference]
    ELSE frame

\* lines 436-439: answer_progress after one answer future was handled
MarkAnswerAlways(ap, i, reply) == ap \cup {i}

MarkAnswer(ap, i, reply) ==
    IF Succeeded(reply) THEN ap \cup {i} ELSE ap

\* lines 468-470: the rows after one context future was handled
ApplyContext(frame, i, reply) ==
    IF Succeeded(reply)
    THEN [frame EXCEPT ![i].c = reply.contexts]
    ELSE frame

\* lines 468-471: context_progress after one context future was handled
MarkContextOnlyLast(cp, i, reply) ==
    IF Succeeded(reply) THEN {i} ELSE cp

MarkContext(cp, i, reply) ==
    IF Succeeded(reply) THEN cp \cup {i} ELSE cp

TallyEvery(count, reply) == count + 1

\* lines 440 and 472: successful_answers, successful_contexts after one
\* future was handled
Tally(count, reply) == IF Succeeded(reply) THEN count + 1 ELSE count

\* lines 449 and 481: save_counter % 10 == 0
SaveDue(counter) == counter % SaveEvery = 0

\* ------------------------------------------------------------------ state
VARIABLES
    upload,               \* the uploaded sheet (its bytes give file_hash)
    budget,               \* runs of process_method2_file still to start
    emptyReplies,         \* the remote service may answer with an empty value
    file,                 \* state_<file_hash>.pkl
    fileFresh,            \* the file was written during the current run
    pc,                   \* "idle", "fetching", "done" or "aborted"
    previous_state,       \* what load_processing_state returned
    df,
    answer_progress,
    context_progress,
    answer_tasks,
    context_tasks,
    pendingA,             \* answer futures as_completed has not yielded yet
    pendingC,             \* context futures as_completed has not yielded yet
    completed_tasks,
    save_counter,
    successful_answers,
    successful_contexts,
    \* ---- observers of the run, read by no action
    tasksBuilt,           \* the tasks of this run, as <<kind, index>>
    handled,              \* the completions processed in this run
    appliedA,             \* answer fetches of this run that were applied
    appliedC,             \* context fetches of this run that were applied
    failedA,              \* answer tasks of this run that failed
    saveLog,              \* the call of save_processing_state in the last step
    finalLog,             \* the calls of line 493 in this run
    abortedAt,            \* the table write whose exception ended the run
    aligned,              \* line 498 was reached
    lastRun,              \* the last run that returned
    \* ---- sessions that process the same upload side by side
    session,              \* per session: its position and the saves it still makes
    shared,               \* state_<file_hash>.pkl as those sessions leave it
    \* ---- align_data_for_evaluation and evaluate_dataset of app.py
    records,              \* the rows handed to align_data_for_evaluation
    stage,                \* "input", "aligned" or "evaluated"
    aligned_data,
    skipped_count,
    aligned_from,         \* observer: the row each aligned record came from
    selected_metrics,
    valid_samples,
    invalid_count,
    score_calls,          \* observer: calls of ragas evaluate() made so far
    result,               \* what evaluate_dataset returned
    \* ---- DatasetEvaluator of evaluate_dataset.py
    mode,                 \* "none", "direct" (run_evaluation) or "batch"
    total_samples,
    batch_size,
    at,                   \* "idle", "call", "scoring", "sleep" or "done"
    attempt,
    batch_index,          \* i of run_batch_evaluation
    all_results,
    returned,             \* what the entry point returned or raised
    in_flight,            \* observer: calls of evaluate() not yet ended
    calls,                \* observer: calls of evaluate() in this retry loop
    scored,               \* observer: those of them that returned a result
    evaluated,            \* observer: the result evaluate() returned last
    waits,                \* observer: the failures of this retry loop and the
                          \* waits computed after them
    batches,              \* observer: the chunks handed to _evaluate_batch
    \* ---- the consumers that join scores with records
    results_df,           \* result.to_pandas(): one row of scores per scored sample
    evaluation_data,      \* the records handed to the consumer with the result
    display_at,           \* display_evaluation_results: "idle", "done" or "raised"
    detailed_df,          \* the table display_evaluation_results built
    warnings,             \* the st.warning calls of display_evaluation_results
    save_at,              \* save_results: "idle", "done" or "raised"
    saved_df,             \* the table save_results wrote
    \* ---- cleanup_old_state_files on a directory of state files
    state_dir,            \* the aged state files, in os.listdir order
    fresh_count,          \* the state files written today (age 0) beside them
    swept,                \* cleanup_old_state_files has run
    found_size_mb,        \* observer: dir_size_mb as measured at line 155
    deleted,              \* the positions in state_dir of the files unlinked
    fresh_deleted,        \* whether the loop unlinked the files written today
    dir_size_mb,          \* dir_size_mb after the loop
    \* ---- the thread pools of app.py and of the stand-alone scripts
    program,              \* "app", "answers script" or "contexts script"
    phase,                \* "start", "answers", "between", "contexts",
                          \* "draining", "finished" or "aborted"
    futures,              \* per task <<kind, k>>: where its future is
    file_lock,            \* the task whose worker holds file_lock, or NoTask
    excel,                \* the rows of the Excel file a script has filled
    copies,               \* per task: the rows in the df its worker read
    attempts,             \* per task: attempt of safe_update_excel
    table                 \* the tasks whose result the loop of app.py wrote
                          \* into df and the progress set

mem == <<previous_state, df, answer_progress, context_progress, answer_tasks,
         context_tasks, pendingA, pendingC, completed_tasks, save_counter,
         successful_answers, successful_contexts>>
store == <<file, fileFresh>>
sessions == <<session, shared>>
filter == <<records, stage, aligned_data, skipped_count, aligned_from,
           selected_metrics, valid_samples, invalid_count, score_calls, result>>
executor == <<mode, total_samples, batch_size, at, attempt, batch_index,
             all_results, returned, in_flight, calls, scored, evaluated, waits,
             batches>>
join == <<results_df, evaluation_data, display_at, detailed_df, warnings,
         save_at, saved_df>>
sweep == <<state_dir, fresh_count, swept, found_size_mb, deleted, fresh_deleted,
          dir_size_mb>>
pool == <<program, phase, futures, file_lock, excel, copies, attempts, table>>
others == <<join, sweep, pool>>
env == <<upload, emptyReplies, sessions, filter, executor, others>>
obs == <<tasksBuilt, handled, appliedA, appliedC, failedA, saveLog, finalLog,
         abortedAt, aligned, lastRun>>
vars == <<env, budget, store, pc, mem, obs>>

NoSave == [called |-> FALSE, ok |-> FALSE, before |-> None, wrote |-> None,
           ap |-> {}, cp |-> {}]

\* the record of one call save_processing_state(file_hash, frame, ap, cp)
SaveCall(frame, ap, cp, outcome) ==
    [called |-> TRUE, ok |-> outcome = "ok", before |-> LoadState(file),
     wrote |-> StateData(frame, ap, cp), ap |-> ap, cp |-> cp]

NoRun == [valid |-> FALSE, saved |-> FALSE, ap |-> {}, cp |-> {}, failedA |-> {}]

TypeOK ==
    /\ pc \in {"idle", "fetching", "done", "aborted"}
    /\ budget \in 0..(MaxRuns + BigRuns)
    /\ file.kind \in {"absent", "corrupt", "pickle"}
    /\ answer_progress \subseteq DOMAIN upload
    /\ context_progress \subseteq DOMAIN upload
    /\ pendingA \subseteq Range(answer_tasks)
    /\ pendingC \subseteq Range(context_tasks)
    /\ abortedAt \in {"", "first", "periodic", "final"}
    /\ \A s \in DOMAIN session :
        session[s].at \in {"idle", "loop", "sweep", "open", "dump", "done"}
    /\ stage \in {"input", "aligned", "evaluated"}
    /\ Len(aligned_from) = Len(aligned_data) =>
            skipped_count + Len(aligned_data) = (IF stage = "input" THEN 0 ELSE Len(records))
    /\ mode \in {"none", "direct", "batch"}
    /\ at \in {"idle", "call", "scoring", "sleep", "done"}
    /\ attempt \in 0..(max_retries - 1)
    /\ in_flight \in 0..1

InitCommon ==
    /\ file = Absent
    /\ fileFresh = FALSE
    /\ pc = "idle"
    /\ previous_state = None
    /\ df = <<>>
    /\ answer_progress = {}
    /\ context_progress = {}
    /\ answer_tasks = <<>>
    /\ context_tasks = <<>>
    /\ pendingA = {}
    /\ pendingC = {}
    /\ completed_tasks = 0
    /\ save_counter = 0
    /\ successful_answers = 0
    /\ successful_contexts = 0
    /\ tasksBuilt = {}
    /\ handled = {}
    /\ appliedA = {}
    /\ appliedC = {}
    /\ failedA = {}
    /\ saveLog = NoSave
    /\ finalLog = <<>>
    /\ abortedAt = ""
    /\ aligned = FALSE
    /\ lastRun = NoRun

\* --------------------------------------------------- the alignment filter
\* str(v) of a cell
Str(v) == IF v = NaN THEN "nan" ELSE v

\* A Contexts cell, by what extract_contexts_from_contexts_column sees in it:
\*   "nan"    the cell is missing (str gives 'nan'),
\*   "blank"  the text is empty after strip(),
\*   "marked" chunk_pattern matches; parts are the contents of the matches,
\*            as in "[a.txt]:\nP1\n[b.txt]:\nP2",
\*   "plain"  chunk_pattern matches nothing; parts are the pieces between
\*            blank lines, each with its text after a leading "[..]:" tag
\*            (body) and whether the piece is longer than 10 characters.
MissingCell == [fmt |-> "nan", parts |-> <<>>]
BlankCell == [fmt |-> "blank", parts |-> <<>>]
Marked(contents) == [fmt |-> "marked", parts |-> contents]
Plain(pieces) == [fmt |-> "plain", parts |-> pieces]
Piece(body, long) == [body |-> body, long |-> long]

\* lines 19-41 of convert_to_ragas_formats.py: the passages found in the text
ExtractedPassages(cell) ==
    CASE cell.fmt = "marked" ->
            SelectSeq([k \in DOMAIN cell.parts |-> Strip(cell.parts[k])],
                      LAMBDA content : content # "")
      [] cell.fmt = "plain" ->
            LET kept == SelectSeq(cell.parts, LAMBDA piece : piece.long)
            IN  [k \in DOMAIN kept |-> kept[k].body]
      [] OTHER -> <<>>

\* extract_contexts_from_contexts_column
extract_contexts_from_contexts_column(cell) ==
    IF cell.fmt = "blank"
    THEN <<"no reference">>
    ELSE IF ExtractedPassages(cell) # <<>>
         THEN ExtractedPassages(cell)
         ELSE <<"reference unclear">>

\* lines 270-282: the row passes every check of align_data_for_evaluation
UsableAnyContexts(row) ==
    /\ ~(row.q = NaN \/ Strip(Str(row.q)) = "")
    /\ Strip(Str(row.a)) # ""
    /\ row.c.fmt # "blank"
    /\ Strip(Str(row.a)) # "nan"
    /\ row.c.fmt # "nan"

Usable(row) ==
    /\ ~(row.q = NaN \/ Strip(Str(row.q)) = "")
    /\ Strip(Str(row.a)) # ""
    /\ row.c.fmt # "blank"
    /\ Strip(Str(row.a)) # "nan"
    /\ row.c.fmt # "nan"
    /\ LET contexts == extract_contexts_from_contexts_column(row.c)
       IN  /\ contexts # <<>>
           /\ \E k \in DOMAIN contexts : Strip(contexts[k]) # ""

\* lines 283-288: the record appended for a usable row
AlignedRecord(row) ==
    [question |-> Strip(Str(row.q)),
     answer |-> Strip(Str(row.a)),
     contexts |-> extract_contexts_from_contexts_column(row.c),
     ground_truth |-> Strip(Str(row.a))]

\* the rows align_data_for_evaluation keeps, in the order of iterrows()
AlignedRows(rows) == SelectSeq(Indices(rows), LAMBDA i : Usable(rows[i]))

\* align_data_for_evaluation: aligned_data
align_data_for_evaluation(rows) ==
    [k \in DOMAIN AlignedRows(rows) |-> AlignedRecord(rows[AlignedRows(rows)[k]])]

\* align_data_for_evaluation: skipped_count
SkippedCount(rows) == Cardinality({i \in DOMAIN rows : ~Usable(rows[i])})

\* the rows a frame may hold when it is aligned
AlignRow(q, a, c) == [q |-> q, a |-> a, c |-> c]

AlignRows ==
    {AlignRow("Q", "A", Marked(<<"P1", "P2">>)),
     AlignRow("Q", "A", Marked(<<" ", "P1">>)),
     AlignRow("Q", "A", Marked(<<" ">>)),
     AlignRow("Q", "A", Plain(<<Piece("P1", TRUE)>>)),
     AlignRow("Q", "A", Plain(<<Piece("P1", FALSE)>>)),
     AlignRow("Q", "A", Plain(<<Piece("", TRUE)>>)),
     AlignRow("Q", "A", Plain(<<Piece("", TRUE), Piece("P2", TRUE)>>)),
     AlignRow("Q", "A", MissingCell),
     AlignRow("Q", "A", BlankCell),
     AlignRow("Q", NaN, Marked(<<"P1", "P2">>)),
     AlignRow("Q", " ", Plain(<<Piece("P1", TRUE)>>)),
     AlignRow(NaN, "A", Marked(<<"P1", "P2">>)),
     AlignRow(" ", "A", Plain(<<Piece("", TRUE)>>))}

Frames == UNION {[1..n -> AlignRows] : n \in 0..MaxAlign}

\* ------------------------------------------- evaluate_dataset of app.py
\* lines 572-581: the sample passes the completeness checks
ValidSampleNoBlankPassage(item) ==
    /\ item.question # ""
    /\ item.answer # ""
    /\ item.contexts # <<>>
    /\ \A k \in DOMAIN item.contexts : Strip(item.contexts[k]) # ""

ValidSample(item) ==
    /\ item.question # ""
    /\ item.answer # ""
    /\ item.contexts # <<>>
    /\ ~(\A k \in DOMAIN item.contexts : Strip(item.contexts[k]) = "")

ValidSamplesAll(data) == data

\* lines 567-583: valid_samples
ValidSamples(data) == SelectSeq(data, ValidSample)

\* lines 628-635: the keys of metric_map (two of the six stand for all)
metric_map == {"faithfulness", "answer_relevancy"}

\* line 638: metrics
Metrics(selected) == SelectSeq(selected, LAMBDA metric : metric \in metric_map)

\* the selections evaluate_dataset may be called with
Selections ==
    {<<>>, <<"bogus">>, <<"faithfulness">>, <<"bogus", "answer_relevancy">>}

\* how ragas evaluate() can end
ScoreOutcomes == {"returns", "raises"}

NoResult == [kind |-> "none", rows |-> <<>>, metrics |-> <<>>]

\* the result of evaluate(dataset, metrics=metrics, ...)
Scored(data, metrics) == [kind |-> "result", rows |-> data, metrics |-> metrics]

\* evaluate_dataset: whether line 650 is reached
ReachesScoringAnySelection(data, selected) ==
    /\ data # <<>>
    /\ ValidSamples(data) # <<>>
    /\ selected # <<>>

ReachesScoring(data, selected) ==
    /\ data # <<>>
    /\ ValidSamples(data) # <<>>
    /\ Metrics(selected) # <<>>

\* The records evaluate_dataset may be handed by a caller that did not align
\* them: each field empty, blank or filled.
EvalItems ==
    [question : {"", " ", "Q"},
     answer : {"", "A"},
     contexts : {<<>>, <<" ">>, <<"", "P">>, <<"P">>},
     ground_truth : {"G"}]

Datasets == UNION {[1..n -> EvalItems] : n \in 0..MaxEval}

\* nothing aligned or evaluated yet; frame is the data to align
FilterInit(frame) ==
    /\ records = frame
    /\ stage = "input"
    /\ aligned_data = <<>>
    /\ skipped_count = 0
    /\ aligned_from = <<>>
    /\ selected_metrics = <<>>
    /\ valid_samples = <<>>
    /\ invalid_count = 0
    /\ score_calls = 0
    /\ result = NoResult

\* ------------------------------------ DatasetEvaluator (evaluate_dataset.py)
\* An error text str(e), as the set of the words in it that the signatures
\* of _evaluate_batch can meet.
ErrorTexts ==
    {{"boom"}, {"Connection error"}, {"Timeout"}, {"Rate", "limit"}, {"limit", "Timeout"}}

\* word.lower()
Lower(word) ==
    CASE word = "Timeout" -> "timeout"
      [] word = "Rate" -> "rate"
      [] word = "Connection error" -> "connection error"
      [] OTHER -> word

\* line 236: "Connection error" in error_msg or "timeout" in error_msg.lower()
IsConnection(error_msg) ==
    "Connection error" \in error_msg \/ "timeout" \in {Lower(w) : w \in error_msg}

\* line 240: "rate" in error_msg.lower() or "limit" in error_msg.lower()
IsRateLimit(error_msg) ==
    "rate" \in {Lower(w) : w \in error_msg} \/ "limit" \in {Lower(w) : w \in error_msg}

\* what random.uniform(lo, hi) can yield: the ends and the middle
Draws == {"low", "middle", "high"}

Uniform(lo, hi, draw) ==
    CASE draw = "low" -> lo
      [] draw = "middle" -> (lo + hi) \div 2
      [] draw = "high" -> hi

RECURSIVE Power(_, _)
\* b ** n
Power(b, n) == IF n = 0 THEN 1 ELSE b * Power(b, n - 1)

\* lines 236-245: wait_time of _evaluate_batch
BatchWait(error_msg, a, draw) ==
    IF IsConnection(error_msg)
    THEN base_delay * Power(3, a) + Uniform(5, 15, draw)
    ELSE IF IsRateLimit(error_msg)
         THEN base_delay * Power(4, a) + Uniform(10, 30, draw)
         ELSE base_delay + Uniform(1, 5, draw)

\* line 137: wait_time of run_evaluation
DirectWait(a) == (a + 1) * 10

\* lines 136 and 234: attempt < max_retries - 1
MayRetry(a) == a < max_retries - 1

\* line 167: num_batches
NumBatchesRoundedDown(total, size) == total \div size

NumBatches(total, size) == (total + size - 1) \div size

Min(a, b) == IF a <= b THEN a ELSE b

\* lines 173-174: <<start_idx, end_idx>> of batch i
BatchBounds(i, total, size) == <<i * size, Min((i + 1) * size, total)>>

\* The scores of a result, as the audit sees them: whether its metric columns
\* hold a zero, and whether they hold a missing value (NaN).
ScoreSheets == [zeros : BOOLEAN, nans : BOOLEAN]

CleanSheet == [zeros |-> FALSE, nans |-> FALSE]

\* the result evaluate() returned for the samples [start, stop) in an attempt
EvaluationResult(bounds, a, sheet) ==
    [kind |-> "result", start |-> bounds[1], stop |-> bounds[2], attempt |-> a,
     scores |-> sheet]

NoneReturned ==
    [kind |-> "none", start |-> 0, stop |-> 0, attempt |-> 0, scores |-> CleanSheet]
Raised ==
    [kind |-> "raised", start |-> 0, stop |-> 0, attempt |-> 0, scores |-> CleanSheet]
NotReturned ==
    [kind |-> "running", start |-> 0, stop |-> 0, attempt |-> 0, scores |-> CleanSheet]

\* an audit that would replace the missing scores by zeros
check_evaluation_quality_fillna(scorers) ==
    [scorers EXCEPT !.scores = [zeros |-> @.zeros \/ @.nans, nans |-> FALSE]]

\* lines 144-160: the result object after _check_evaluation_quality(result)
\* returned; the audit reads a copy (to_pandas) and writes to the log only
check_evaluation_quality(scorers) == scorers

\* lines 253-263: _merge_results
merge_results(results_list) == results_list[1]

\* lines 194-199: what run_batch_evaluation returns
BatchReturn(results) == IF results = <<>> THEN NoneReturned ELSE merge_results(results)

\* the batch sizes run_batch_evaluation is called with (10 is the default)
BatchSizes == {5, 10}

ExecutorInit ==
    /\ mode = "none"
    /\ total_samples = 0
    /\ batch_size = 0
    /\ at = "idle"
    /\ attempt = 0
    /\ batch_index = 0
    /\ all_results = <<>>
    /\ returned = NotReturned
    /\ in_flight = 0
    /\ calls = 0
    /\ scored = 0
    /\ evaluated = NotReturned
    /\ waits = <<>>
    /\ batches = <<>>

\* ------------------------------------- joining scores with their records
\* a table of n rows, row i being i (a score row or a record)
RowsUpTo(n) == [i \in 1..n |-> i]

\* df.head(n) and data[:n]
FirstRows(rows, n) == SubSeq(rows, 1, Min(n, Len(rows)))

\* pd.DataFrame(columns): the columns side by side; the constructor raises
\* ValueError unless all columns have one length
SameLength(left, right) == Len(left) = Len(right)

DataFrame(left, right) == [i \in DOMAIN left |-> <<left[i], right[i]>>]

NoTable == <<>>

\* nothing joined yet; scores and data are what the consumers receive
JoinInit(scores, data) ==
    /\ results_df = scores
    /\ evaluation_data = data
    /\ display_at = "idle"
    /\ detailed_df = NoTable
    /\ warnings = 0
    /\ save_at = "idle"
    /\ saved_df = NoTable

\* ------------------------------------------- cleanup_old_state_files
\* the ages in days (around the tier limits) and the sizes in MB of a file
FileAges == {3, 4, 7, 8, 14, 15}
FileSizes == {1, 60}

Listings == UNION {[1..n -> [age : FileAges, size : FileSizes]] : n \in 0..MaxFiles}

\* line 155: get_directory_size(state_dir); the files written today are
\* small next to a megabyte
DirectorySize(listing) ==
    LET RECURSIVE Sum(_)
        Sum(k) == IF k = 0 THEN 0 ELSE listing[k].size + Sum(k - 1)
    IN  Sum(Len(listing))

RECURSIVE OldestFirst(_, _)
\* line 177: files_info.sort(key=mtime), a stable sort, as positions
OldestFirst(listing, rest) ==
    IF rest = {}
    THEN <<>>
    ELSE LET i == CHOOSE i \in rest : \A j \in rest :
                      \/ listing[i].age > listing[j].age
                      \/ listing[i].age = listing[j].age /\ i <= j
         IN  <<i>> \o OldestFirst(listing, rest \ {i})

RECURSIVE SweepLoop(_, _, _, _, _, _)
\* lines 180-203: the loop from files_info[k] on, size being dir_size_mb
\* before it; stuck are the files whose os.unlink raises
SweepLoop(listing, order, k, size, count, stuck) ==
    IF k > Len(order)
    THEN [deleted |-> {}, size |-> size]
    ELSE LET i == order[k]
             should_delete ==
                 ShouldDelete(listing[i].age, size > SizeLimit, count > CountLimit)
             unlinked == should_delete /\ i \notin stuck
             rest == SweepLoop(listing, order, k + 1,
                               IF unlinked THEN size - listing[i].size ELSE size,
                               count, stuck)
         IN  [deleted |-> IF unlinked THEN rest.deleted \cup {i} ELSE rest.deleted,
              size |-> rest.size]

\* the directory before a sweep
SweepInit(listing, fresh) ==
    /\ state_dir = listing
    /\ fresh_count = fresh
    /\ swept = FALSE
    /\ found_size_mb = 0
    /\ deleted = {}
    /\ fresh_deleted = FALSE
    /\ dir_size_mb = 0

\* ------------------------------------------------------- thread pools
\* the tasks of a run: na of the first pool, nc of the second
PoolTasks(na, nc) == ({"answer"} \X (1..na)) \cup ({"context"} \X (1..nc))

NoTask == <<"none", 0>>

\* a worker thread is occupied by the task
Working == {"running", "lock", "read", "write", "sleep"}

Busy(futs) == {t \in DOMAIN futs : futs[t] \in Working}

Of(futs, kind) == {t \in DOMAIN futs : t[1] = kind}

\* ThreadPoolExecutor takes work items in submission order
FirstQueued(futs, t) ==
    /\ futs[t] = "queued"
    /\ \A u \in DOMAIN futs : (futs[u] = "queued" /\ u[1] = t[1]) => t[2] <= u[2]

WidthOneMore(prog) == IF prog = "app" THEN max_workers + 1 ELSE script_workers

\* the max_workers of the pool the program creates
Width(prog) == IF prog = "app" THEN max_workers ELSE script_workers

CanAcquireAlways(holder) == TRUE

\* threading.Lock: `with file_lock` enters when no thread holds the lock
CanAcquire(holder) == holder = NoTask

\* a program about to create its first pool
PoolInit(prog, na, nc) ==
    /\ program = prog
    /\ phase = "start"
    /\ futures = [t \in PoolTasks(na, nc) |-> "unsubmitted"]
    /\ file_lock = NoTask
    /\ excel = {}
    /\ copies = [t \in PoolTasks(na, nc) |-> {}]
    /\ attempts = [t \in PoolTasks(na, nc) |-> 0]
    /\ table = {}

\* the variables of the components below, while another component runs
OthersIdle ==
    /\ JoinInit(<<>>, <<>>)
    /\ SweepInit(<<>>, 0)
    /\ PoolInit("app", 0, 0)

\* ---------------------------------------------- sessions on one upload
\* Streamlit runs main() once per browser session; sessions that upload the
\* same bytes compute the same file_hash and so the same state file.
Sessions == 1..MaxSessions

\* the positions of a session inside save_processing_state
InSave == {"sweep", "open", "dump"}

\* the state file before any session wrote it (by = 0: no session)
NoFile == [kind |-> "absent", by |-> 0]

SessionsInit ==
    /\ session = [s \in Sessions |-> [at |-> "idle", saves |-> 0]]
    /\ shared = NoFile

Init ==
    /\ upload \in Uploads
    /\ budget = MaxRuns
    /\ emptyReplies = TRUE
    /\ InitCommon
    /\ SessionsInit
    /\ FilterInit(<<>>)
    /\ ExecutorInit
    /\ OthersIdle

InitBig ==
    /\ upload \in BigUploads
    /\ budget = BigRuns
    /\ emptyReplies = FALSE
    /\ InitCommon
    /\ SessionsInit
    /\ FilterInit(<<>>)
    /\ ExecutorInit
    /\ OthersIdle

\* an exception of df.to_excel leaves process_method2_file: its locals are gone
Abort(where) ==
    /\ pc' = "aborted"
    /\ abortedAt' = where
    /\ previous_state' = None
    /\ df' = <<>>
    /\ answer_progress' = {}
    /\ context_progress' = {}
    /\ answer_tasks' = <<>>
    /\ context_tasks' = <<>>
    /\ pendingA' = {}
    /\ pendingC' = {}
    /\ completed_tasks' = 0
    /\ save_counter' = 0
    /\ successful_answers' = 0
    /\ successful_contexts' = 0

TaskIds(kind, tasks) == {<<kind, tasks[k]>> : k \in DOMAIN tasks}

\* lines 331-412: load, merge, first table write, task lists
StartRun(tableOk) ==
    /\ pc \in {"idle", "done", "aborted"}
    /\ budget > 0
    /\ budget' = budget - 1
    /\ LET prev == LoadState(file)
           frame == MergeRows(upload, prev)
           ap == MergeAnswerProgress(upload, prev)
           cp == MergeContextProgress(upload, prev)
       IN  IF tableOk
           THEN /\ pc' = "fetching"
                /\ abortedAt' = ""
                /\ previous_state' = prev
                /\ df' = frame
                /\ answer_progress' = ap
                /\ context_progress' = cp
                /\ answer_tasks' = BuildAnswerTasks(frame, ap)
                /\ context_tasks' = BuildContextTasks(frame, cp)
                /\ pendingA' = Range(BuildAnswerTasks(frame, ap))
                /\ pendingC' = Range(BuildContextTasks(frame, cp))
                /\ completed_tasks' = 0
                /\ save_counter' = 0
                /\ successful_answers' = 0
                /\ successful_contexts' = 0
                /\ tasksBuilt' = TaskIds("answer", BuildAnswerTasks(frame, ap))
                                 \cup TaskIds("context", BuildContextTasks(frame, cp))
           ELSE /\ Abort("first")
                /\ tasksBuilt' = {}
    /\ handled' = {}
    /\ appliedA' = {}
    /\ appliedC' = {}
    /\ failedA' = {}
    /\ saveLog' = NoSave
    /\ finalLog' = <<>>
    /\ aligned' = FALSE
    /\ fileFresh' = FALSE
    /\ UNCHANGED <<env, file, lastRun>>

\* lines 432-451: one completed answer future, in completion order
AnswerComplete(i, reply, way, tableOk) ==
    /\ pc = "fetching"
    /\ i \in pendingA
    /\ LET frame == ApplyAnswer(df, i, reply)
           ap == MarkAnswer(answer_progress, i, reply)
           saving == SaveDue(save_counter + 1)
       IN  /\ ~saving => (way = <<Quiet, "ok">> /\ tableOk)
           /\ IF saving
              THEN /\ file' = SaveFile(file, fileFresh, way[1],
                                       frame, ap, context_progress, way[2])
                   /\ fileFresh' = SaveFresh(fileFresh, way[2])
                   /\ saveLog' = SaveCall(frame, ap, context_progress, way[2])
              ELSE /\ UNCHANGED store
                   /\ saveLog' = NoSave
           /\ IF tableOk
              THEN /\ df' = frame
                   /\ answer_progress' = ap
                   /\ successful_answers' = Tally(successful_answers, reply)
                   /\ pendingA' = pendingA \ {i}
                   /\ completed_tasks' = completed_tasks + 1
                   /\ save_counter' = save_counter + 1
                   /\ UNCHANGED <<pc, abortedAt, previous_state, context_progress,
                                  answer_tasks, context_tasks, pendingC,
                                  successful_contexts>>
              ELSE Abort("periodic")
    /\ appliedA' = IF Succeeded(reply) THEN appliedA \cup {i} ELSE appliedA
    /\ failedA' = IF Succeeded(reply) THEN failedA ELSE failedA \cup {i}
    /\ handled' = handled \cup {<<"answer", i>>}
    /\ UNCHANGED <<env, budget, tasksBuilt, appliedC, finalLog, aligned, lastRun>>

\* lines 454-483: one completed context future; the context pool starts when
\* the answer pool is exhausted, and save_counter starts again at 0
ContextComplete(i, reply, way, tableOk) ==
    /\ pc = "fetching"
    /\ pendingA = {}
    /\ i \in pendingC
    /\ LET first == pendingC = Range(context_tasks)
           counter == (IF first THEN 0 ELSE save_counter) + 1
           frame == ApplyContext(df, i, reply)
           cp == MarkContext(context_progress, i, reply)
           saving == SaveDue(counter)
       IN  /\ ~saving => (way = <<Quiet, "ok">> /\ tableOk)
           /\ IF saving
              THEN /\ file' = SaveFile(file, fileFresh, way[1],
                                       frame, answer_progress, cp, way[2])
                   /\ fileFresh' = SaveFresh(fileFresh, way[2])
                   /\ saveLog' = SaveCall(frame, answer_progress, cp, way[2])
              ELSE /\ UNCHANGED store
                   /\ saveLog' = NoSave
           /\ IF tableOk
              THEN /\ df' = frame
                   /\ context_progress' = cp
                   /\ successful_contexts' = Tally(successful_contexts, reply)
                   /\ pendingC' = pendingC \ {i}
                   /\ completed_tasks' = completed_tasks + 1
                   /\ save_counter' = counter
                   /\ UNCHANGED <<pc, abortedAt, previous_state, answer_progress,
                                  answer_tasks, context_tasks, pendingA,
                                  successful_answers>>
              ELSE Abort("periodic")
    /\ appliedC' = IF Succeeded(reply) THEN appliedC \cup {i} ELSE appliedC
    /\ handled' = handled \cup {<<"context", i>>}
    /\ UNCHANGED <<env, budget, tasksBuilt, appliedA, failedA, finalLog, aligned,
                   lastRun>>

\* lines 485-509: the final save, the final table write, alignment
Finish(way, tableOk) ==
    /\ pc = "fetching"
    /\ pendingA = {}
    /\ pendingC = {}
    /\ file' = SaveFile(file, fileFresh, way[1],
                        df, answer_progress, context_progress, way[2])
    /\ fileFresh' = SaveFresh(fileFresh, way[2])
    /\ saveLog' = SaveCall(df, answer_progress, context_progress, way[2])
    /\ finalLog' = Append(finalLog, [ap |-> answer_progress, cp |-> context_progress])
    /\ IF tableOk
       THEN /\ pc' = "done"
            /\ aligned' = TRUE
            /\ lastRun' = [valid |-> TRUE, saved |-> way[2] = "ok",
                           ap |-> answer_progress, cp |-> context_progress,
                           failedA |-> failedA]
            /\ UNCHANGED <<mem, abortedAt>>
       ELSE /\ Abort("final")
            /\ lastRun' = NoRun
            /\ UNCHANGED aligned
    /\ UNCHANGED <<env, budget, tasksBuilt, handled, appliedA, appliedC, failedA>>

\* lines 969-980: the button that unlinks the state file of the upload
ClearProgress ==
    /\ pc \in {"done", "aborted"}
    /\ budget > 0
    /\ file.kind # "absent"
    /\ file' = Absent
    /\ fileFresh' = FALSE
    /\ saveLog' = NoSave
    /\ lastRun' = [lastRun EXCEPT !.saved = FALSE]
    /\ UNCHANGED <<env, budget, pc, mem, tasksBuilt, handled, appliedA, appliedC,
                   failedA, finalLog, abortedAt, aligned>>

Run ==
    \/ \E tableOk \in BOOLEAN : StartRun(tableOk)
    \/ \E i \in DOMAIN upload, reply \in AnswerReplies(emptyReplies), way \in SaveWays,
          tableOk \in BOOLEAN :
            AnswerComplete(i, reply, way, tableOk)
    \/ \E i \in DOMAIN upload, reply \in ContextReplies(emptyReplies), way \in SaveWays,
          tableOk \in BOOLEAN :
            ContextComplete(i, reply, way, tableOk)
    \/ \E way \in SaveWays, tableOk \in BOOLEAN :
            Finish(way, tableOk)

Next ==
    \/ Run
    \/ ClearProgress

Spec == Init /\ [][Next]_vars

NextBig == Run

SpecBig == InitBig /\ [][NextBig]_vars

\* ---------------------------------------------- sessions on one upload
\* the variables of the single run modelled above
orchestrator == <<upload, emptyReplies, budget, store, pc, mem, obs>>
notSessions == <<orchestrator, filter, executor, others>>
notFilter == <<orchestrator, sessions, executor, others>>
notExecutor == <<orchestrator, sessions, filter, others>>

\* no run of the model above is under way
OrchestratorIdle ==
    /\ upload = <<>>
    /\ budget = 0
    /\ emptyReplies = FALSE
    /\ InitCommon

\* lines 911-913: the session presses the start button; its run will call
\* save_processing_state n times (the periodic saves and the final one)
SessionStart(s, n) ==
    /\ session[s].at = "idle"
    /\ session' = [session EXCEPT ![s] = [at |-> "loop", saves |-> n]]
    /\ UNCHANGED <<shared, notSessions>>

\* lines 450, 482 and 493: the coordinating loop of the session calls
\* save_processing_state; no lock is taken
SessionEnterSave(s) ==
    /\ session[s].at = "loop"
    /\ session[s].saves > 0
    /\ session' = [session EXCEPT ![s].at = "sweep"]
    /\ UNCHANGED <<shared, notSessions>>

\* line 217: cleanup_old_state_files
SessionSweep(s, sit) ==
    /\ session[s].at = "sweep"
    /\ session' = [session EXCEPT ![s].at = "open"]
    /\ shared' = IF shared.kind # "absent" /\ ShouldDelete(sit[1], sit[2], sit[3])
                 THEN NoFile
                 ELSE shared
    /\ UNCHANGED notSessions

\* line 234: open(state_file, 'wb') truncates the file, or raises
SessionOpen(s, ok) ==
    /\ session[s].at = "open"
    /\ IF ok
       THEN /\ shared' = [kind |-> "corrupt", by |-> s]
            /\ session' = [session EXCEPT ![s].at = "dump"]
       ELSE /\ shared' = shared
            /\ session' = [session EXCEPT ![s] = [at |-> "loop", saves |-> @.saves - 1]]
    /\ UNCHANGED notSessions

\* lines 235-243: pickle.dump writes the state, or raises; the call returns
SessionDump(s, ok) ==
    /\ session[s].at = "dump"
    /\ shared' = IF ok THEN [kind |-> "pickle", by |-> s] ELSE [shared EXCEPT !.kind = "corrupt"]
    /\ session' = [session EXCEPT ![s] = [at |-> "loop", saves |-> @.saves - 1]]
    /\ UNCHANGED notSessions

\* lines 494-509: after the final save the run returns
SessionEnd(s) ==
    /\ session[s].at = "loop"
    /\ session[s].saves = 0
    /\ session' = [session EXCEPT ![s].at = "done"]
    /\ UNCHANGED <<shared, notSessions>>

InitSessions ==
    /\ OrchestratorIdle
    /\ SessionsInit
    /\ FilterInit(<<>>)
    /\ ExecutorInit
    /\ OthersIdle

NextSessions ==
    \/ \E s \in Sessions, n \in 1..MaxSaves : SessionStart(s, n)
    \/ \E s \in Sessions : SessionEnterSave(s)
    \/ \E s \in Sessions, sit \in Situations : SessionSweep(s, sit)
    \/ \E s \in Sessions, ok \in BOOLEAN : SessionOpen(s, ok)
    \/ \E s \in Sessions, ok \in BOOLEAN : SessionDump(s, ok)
    \/ \E s \in Sessions : SessionEnd(s)

SpecSessions == InitSessions /\ [][NextSessions]_vars

\* --------------------------------------- alignment and evaluate_dataset
\* lines 263-300: align_data_for_evaluation(df)
AlignData ==
    /\ stage = "input"
    /\ stage' = "aligned"
    /\ aligned_data' = align_data_for_evaluation(records)
    /\ skipped_count' = SkippedCount(records)
    /\ aligned_from' = AlignedRows(records)
    /\ UNCHANGED <<records, selected_metrics, valid_samples, invalid_count,
                   score_calls, result, notFilter>>

\* lines 557-659: evaluate_dataset(evaluation_data, selected_metrics)
EvaluateDataset(selected, outcome) ==
    /\ stage = "aligned"
    /\ stage' = "evaluated"
    /\ selected_metrics' = selected
    /\ ~ReachesScoring(aligned_data, selected) => outcome = "returns"
    /\ IF aligned_data = <<>>
       THEN /\ UNCHANGED <<valid_samples, invalid_count, score_calls>>
            /\ result' = NoResult
       ELSE /\ valid_samples' = ValidSamples(aligned_data)
            /\ invalid_count' = Len(aligned_data) - Len(ValidSamples(aligned_data))
            /\ IF ReachesScoring(aligned_data, selected)
               THEN /\ score_calls' = score_calls + 1
                    /\ result' = IF outcome = "returns"
                                 THEN Scored(ValidSamples(aligned_data), Metrics(selected))
                                 ELSE NoResult
               ELSE /\ UNCHANGED score_calls
                    /\ result' = NoResult
    /\ UNCHANGED <<records, aligned_data, skipped_count, aligned_from, notFilter>>

\* evaluate_dataset is about to run on data that no alignment produced
InitValidate ==
    /\ OrchestratorIdle
    /\ SessionsInit
    /\ ExecutorInit
    /\ OthersIdle
    /\ records = <<>>
    /\ stage = "aligned"
    /\ aligned_data \in Datasets
    /\ skipped_count = 0
    /\ aligned_from = <<>>
    /\ selected_metrics = <<>>
    /\ valid_samples = <<>>
    /\ invalid_count = 0
    /\ score_calls = 0
    /\ result = NoResult

NextValidate ==
    \E selected \in Selections, outcome \in ScoreOutcomes :
        EvaluateDataset(selected, outcome)

SpecValidate == InitValidate /\ [][NextValidate]_vars

InitFilter ==
    /\ OrchestratorIdle
    /\ SessionsInit
    /\ \E frame \in Frames : FilterInit(frame)
    /\ ExecutorInit
    /\ OthersIdle

NextFilter ==
    \/ AlignData
    \/ \E selected \in Selections, outcome \in ScoreOutcomes :
            EvaluateDataset(selected, outcome)

SpecFilter == InitFilter /\ [][NextFilter]_vars

\* ------------------------------------ DatasetEvaluator (evaluate_dataset.py)
\* lines 107-113: run_evaluation(dataset) enters its retry loop
RunEvaluation(n) ==
    /\ at = "idle"
    /\ mode' = "direct"
    /\ total_samples' = n
    /\ at' = "call"
    /\ UNCHANGED <<batch_size, attempt, batch_index, all_results, returned,
                   in_flight, calls, scored, evaluated, waits, batches, notExecutor>>

\* lines 162-172: run_batch_evaluation(dataset, batch_size) up to its first
\* batch; without a batch it returns None at line 196
RunBatchEvaluation(n, size) ==
    /\ at = "idle"
    /\ mode' = "batch"
    /\ total_samples' = n
    /\ batch_size' = size
    /\ IF NumBatches(n, size) = 0
       THEN /\ at' = "done"
            /\ returned' = BatchReturn(all_results)
       ELSE /\ at' = "call"
            /\ UNCHANGED returned
    /\ UNCHANGED <<attempt, batch_index, all_results, in_flight, calls, scored,
                   evaluated, waits, batches, notExecutor>>

\* lines 115-117 and 207-217: an attempt starts; evaluate() is entered
CallEvaluate ==
    /\ at = "call"
    /\ at' = "scoring"
    /\ in_flight' = in_flight + 1
    /\ calls' = IF attempt = 0 THEN 1 ELSE calls + 1
    /\ scored' = IF attempt = 0 THEN 0 ELSE scored
    /\ waits' = IF attempt = 0 THEN <<>> ELSE waits
    /\ UNCHANGED <<mode, total_samples, batch_size, attempt, batch_index,
                   all_results, returned, evaluated, batches, notExecutor>>

\* lines 187-199: _evaluate_batch has returned ended (a result or None) for
\* batch batch_index; the loop goes to the next batch or merges
BatchEnded(ended) ==
    LET results == IF ended.kind = "result" THEN Append(all_results, ended) ELSE all_results
        bounds == BatchBounds(batch_index, total_samples, batch_size)
    IN  /\ all_results' = results
        /\ batches' = Append(batches,
                [start |-> bounds[1], stop |-> bounds[2], result |-> ended])
        /\ IF batch_index + 1 < NumBatches(total_samples, batch_size)
           THEN /\ batch_index' = batch_index + 1
                /\ attempt' = 0
                /\ at' = "call"
                /\ UNCHANGED returned
           ELSE /\ at' = "done"
                /\ returned' = BatchReturn(results)
                /\ UNCHANGED <<batch_index, attempt>>

\* lines 134-142 and 230-251: the except branch of an attempt, entered with
\* an exception of text error_msg; the loop computes its wait and sleeps, or
\* gives up
AttemptFailed(error_msg, draw) ==
    /\ (mode = "direct" \/ ~MayRetry(attempt)) => draw = "low"
    /\ IF MayRetry(attempt)
       THEN /\ at' = "sleep"
            /\ waits' = Append(waits,
                    [error |-> error_msg,
                     wait |-> IF mode = "direct"
                              THEN DirectWait(attempt)
                              ELSE BatchWait(error_msg, attempt, draw)])
            /\ UNCHANGED <<attempt, batch_index, all_results, returned, batches>>
       ELSE /\ UNCHANGED waits
            /\ IF mode = "direct"
               THEN /\ returned' = Raised
                    /\ at' = "done"
                    /\ UNCHANGED <<attempt, batch_index, all_results, batches>>
               ELSE BatchEnded(NoneReturned)

\* how _check_evaluation_quality(result) can end
AuditOutcomes == {"returns", "raises"}

\* the text of an exception raised inside _check_evaluation_quality
AuditErrorText == {"boom"}

\* lines 117-132 and 217-228: evaluate() returns a result; run_evaluation
\* then audits it inside the same try block, _evaluate_batch returns it
EvaluateReturns(sheet, audit) ==
    LET bounds == IF mode = "direct"
                  THEN <<0, total_samples>>
                  ELSE BatchBounds(batch_index, total_samples, batch_size)
        scorers == EvaluationResult(bounds, attempt, sheet)
    IN
    /\ at = "scoring"
    /\ in_flight' = in_flight - 1
    /\ scored' = scored + 1
    /\ evaluated' = scorers
    /\ mode = "batch" => (audit = "returns" /\ sheet = CleanSheet)
    /\ IF mode = "direct"
       THEN IF audit = "returns"
            THEN /\ returned' = check_evaluation_quality(scorers)
                 /\ at' = "done"
                 /\ UNCHANGED <<attempt, batch_index, all_results, batches, waits>>
            ELSE AttemptFailed(AuditErrorText, "low")
       ELSE /\ BatchEnded(scorers)
            /\ UNCHANGED waits
    /\ UNCHANGED <<mode, total_samples, batch_size, calls, notExecutor>>

\* lines 134-142 and 230-251: evaluate() raises an exception with text
\* error_msg
EvaluateRaises(error_msg, draw) ==
    /\ at = "scoring"
    /\ in_flight' = in_flight - 1
    /\ AttemptFailed(error_msg, draw)
    /\ UNCHANGED <<mode, total_samples, batch_size, calls, scored, evaluated,
                   notExecutor>>

\* lines 139 and 248: time.sleep(wait_time) ends; the next attempt
WakeUp ==
    /\ at = "sleep"
    /\ at' = "call"
    /\ attempt' = attempt + 1
    /\ UNCHANGED <<mode, total_samples, batch_size, batch_index, all_results,
                   returned, in_flight, calls, scored, evaluated, waits, batches,
                   notExecutor>>

InitExecutor ==
    /\ OrchestratorIdle
    /\ SessionsInit
    /\ FilterInit(<<>>)
    /\ ExecutorInit
    /\ OthersIdle

NextExecutor ==
    \/ \E n \in 0..MaxSamples : RunEvaluation(n)
    \/ \E n \in 0..MaxSamples, size \in BatchSizes : RunBatchEvaluation(n, size)
    \/ CallEvaluate
    \/ \E sheet \in ScoreSheets, audit \in AuditOutcomes : EvaluateReturns(sheet, audit)
    \/ \E error_msg \in ErrorTexts, draw \in Draws : EvaluateRaises(error_msg, draw)
    \/ WakeUp

SpecExecutor == InitExecutor /\ [][NextExecutor]_vars

\* ------------------------------------- joining scores with their records
notJoin == <<orchestrator, sessions, filter, executor, sweep, pool>>

\* app.py lines 661-747: display_evaluation_results(results, evaluation_data)
DisplayEvaluationResults ==
    LET mismatch == Len(results_df) # Len(evaluation_data)
        min_length == Min(Len(results_df), Len(evaluation_data))
        scores == IF mismatch THEN FirstRows(results_df, min_length) ELSE results_df
        data == IF mismatch THEN FirstRows(evaluation_data, min_length) ELSE evaluation_data
    IN  /\ display_at = "idle"
        /\ warnings' = IF mismatch THEN warnings + 1 ELSE warnings
        /\ IF SameLength(data, scores)
           THEN /\ detailed_df' = DataFrame(data, scores)
                /\ display_at' = "done"
           ELSE /\ detailed_df' = detailed_df
                /\ display_at' = "raised"
        /\ UNCHANGED <<results_df, evaluation_data, save_at, saved_df, notJoin>>

\* evaluate_dataset.py lines 265-288: save_results(result, evaluation_data)
SaveResults ==
    /\ save_at = "idle"
    /\ IF SameLength(evaluation_data, results_df)
       THEN /\ saved_df' = DataFrame(evaluation_data, results_df)
            /\ save_at' = "done"
       ELSE /\ saved_df' = saved_df
            /\ save_at' = "raised"
    /\ UNCHANGED <<results_df, evaluation_data, display_at, detailed_df, warnings,
                   notJoin>>

InitJoin ==
    /\ OrchestratorIdle
    /\ SessionsInit
    /\ FilterInit(<<>>)
    /\ ExecutorInit
    /\ SweepInit(<<>>, 0)
    /\ PoolInit("app", 0, 0)
    /\ \E n \in 0..MaxJoin, m \in 0..MaxJoin : JoinInit(RowsUpTo(n), RowsUpTo(m))

NextJoin ==
    \/ DisplayEvaluationResults
    \/ SaveResults

SpecJoin == InitJoin /\ [][NextJoin]_vars

\* ------------------------------------------- cleanup_old_state_files
notSweep == <<orchestrator, sessions, filter, executor, join, pool>>

\* lines 147-208: cleanup_old_state_files(); measured tells whether
\* get_directory_size could walk the directory (it returns 0 otherwise)
CleanupOldStateFiles(measured, stuck) ==
    LET size == IF measured THEN DirectorySize(state_dir) ELSE 0
        count == Len(state_dir) + fresh_count
        loop == SweepLoop(state_dir, OldestFirst(state_dir, DOMAIN state_dir), 1,
                          size, count, stuck)
    IN  /\ ~swept
        /\ swept' = TRUE
        /\ found_size_mb' = size
        /\ deleted' = loop.deleted
        /\ fresh_deleted' =
                (fresh_count > 0 /\ ShouldDelete(0, loop.size > SizeLimit, count > CountLimit))
        /\ dir_size_mb' = loop.size
        /\ UNCHANGED <<state_dir, fresh_count, notSweep>>

InitSweep ==
    /\ OrchestratorIdle
    /\ SessionsInit
    /\ FilterInit(<<>>)
    /\ ExecutorInit
    /\ JoinInit(<<>>, <<>>)
    /\ PoolInit("app", 0, 0)
    /\ \E listing \in Listings, fresh \in {0, CountLimit} : SweepInit(listing, fresh)

NextSweep ==
    \E measured \in BOOLEAN, stuck \in SUBSET DOMAIN state_dir :
        CleanupOldStateFiles(measured, stuck)

SpecSweep == InitSweep /\ [][NextSweep]_vars

\* ------------------------------------------------------- thread pools
notPool == <<orchestrator, sessions, filter, executor, join, sweep>>

\* app.py lines 421-428 and 454-461, scripts line 282-287: the pool of the
\* kind is created and every task is submitted; app.py skips an empty task
\* list, a script returns on it
Submit(kind) ==
    /\ phase = (IF kind = "answer" THEN "start" ELSE "between")
    /\ IF Of(futures, kind) = {}
       THEN /\ phase' = IF program = "app" /\ kind = "answer" THEN "between" ELSE "finished"
            /\ UNCHANGED futures
       ELSE /\ phase' = IF kind = "answer" THEN "answers" ELSE "contexts"
            /\ futures' = [t \in DOMAIN futures |->
                                IF t[1] = kind THEN "queued" ELSE futures[t]]
    /\ UNCHANGED <<program, file_lock, excel, copies, attempts, table, notPool>>

\* a free worker thread of the pool takes the next work item: query_answer,
\* query_contexts or process_single_question starts
WorkerStart(t) ==
    /\ FirstQueued(futures, t)
    /\ Cardinality(Busy(futures)) < Width(program)
    /\ futures' = [futures EXCEPT ![t] = "running"]
    /\ UNCHANGED <<program, phase, file_lock, excel, copies, attempts, table, notPool>>

\* the fetch of the worker ends.  In app.py the future is done with it.  In
\* a script the worker goes on to safe_update_excel when the fetch succeeded
\* (scripts lines 227-229 and 179-181) and returns otherwise.
FetchEnds(t, success) ==
    /\ futures[t] = "running"
    /\ program = "app" => success
    /\ futures' = [futures EXCEPT ![t] =
                        IF program # "app" /\ success THEN "lock" ELSE "finished"]
    /\ UNCHANGED <<program, phase, file_lock, excel, copies, attempts, table, notPool>>

\* safe_update_excel: with file_lock (scripts lines 194 and 146)
AcquireLock(t) ==
    /\ futures[t] = "lock"
    /\ CanAcquire(file_lock)
    /\ file_lock' = t
    /\ futures' = [futures EXCEPT ![t] = "read"]
    /\ UNCHANGED <<program, phase, excel, copies, attempts, table, notPool>>

\* safe_update_excel: an exception inside the with block releases the lock;
\* the worker sleeps and retries, or returns False after the last attempt
UpdateFailed(t) ==
    /\ file_lock' = IF file_lock = t THEN NoTask ELSE file_lock
    /\ futures' = [futures EXCEPT ![t] =
                        IF attempts[t] < save_retries - 1 THEN "sleep" ELSE "finished"]

\* safe_update_excel: df = pd.read_excel(file_path), or it raises
ReadExcel(t, ok) ==
    /\ futures[t] = "read"
    /\ IF ok
       THEN /\ copies' = [copies EXCEPT ![t] = excel]
            /\ futures' = [futures EXCEPT ![t] = "write"]
            /\ UNCHANGED file_lock
       ELSE /\ UpdateFailed(t)
            /\ UNCHANGED copies
    /\ UNCHANGED <<program, phase, excel, attempts, table, notPool>>

\* safe_update_excel: the row is set in df and df.to_excel(file_path) writes
\* the whole table, or raises; return True leaves the with block
WriteExcel(t, ok) ==
    /\ futures[t] = "write"
    /\ IF ok
       THEN /\ excel' = copies[t] \cup {t}
            /\ file_lock' = IF file_lock = t THEN NoTask ELSE file_lock
            /\ futures' = [futures EXCEPT ![t] = "finished"]
       ELSE /\ UpdateFailed(t)
            /\ UNCHANGED excel
    /\ UNCHANGED <<program, phase, copies, attempts, table, notPool>>

\* safe_update_excel: time.sleep(1) ends; the next attempt
Retry(t) ==
    /\ futures[t] = "sleep"
    /\ attempts' = [attempts EXCEPT ![t] = @ + 1]
    /\ futures' = [futures EXCEPT ![t] = "lock"]
    /\ UNCHANGED <<program, phase, file_lock, excel, copies, table, notPool>>

\* the coordinating loop: as_completed yields the future and the loop body
\* runs.  In app.py (lines 432-451 and 465-483) it writes a successful
\* result into df and the progress set, and the table write of a periodic
\* save may raise; the with block then waits for the pool and the run ends.
Collect(t, success, tableOk) ==
    /\ phase \in {"answers", "contexts"}
    /\ futures[t] = "finished"
    /\ program # "app" => (success /\ tableOk)
    /\ futures' = [futures EXCEPT ![t] = "collected"]
    /\ table' = IF program = "app" /\ success THEN table \cup {t} ELSE table
    /\ phase' = IF tableOk THEN phase ELSE "draining"
    /\ UNCHANGED <<program, file_lock, excel, copies, attempts, notPool>>

\* the with block of the pool ends: shutdown(wait=True) has seen every work
\* item run to its end
PoolExit ==
    /\ \/ /\ phase \in {"answers", "contexts"}
          /\ \A t \in DOMAIN futures : futures[t] \in {"collected", "unsubmitted"}
          /\ phase' = IF program = "app" /\ phase = "answers" THEN "between" ELSE "finished"
       \/ /\ phase = "draining"
          /\ \A t \in DOMAIN futures : futures[t] \in {"collected", "finished", "unsubmitted"}
          /\ phase' = "aborted"
    /\ UNCHANGED <<program, futures, file_lock, excel, copies, attempts, table, notPool>>

InitPool ==
    /\ OrchestratorIdle
    /\ SessionsInit
    /\ FilterInit(<<>>)
    /\ ExecutorInit
    /\ JoinInit(<<>>, <<>>)
    /\ SweepInit(<<>>, 0)
    /\ \/ \E na \in 0..MaxPool, nc \in 0..MaxPool :
                na + nc <= MaxPool /\ PoolInit("app", na, nc)
       \/ \E prog \in {"answers script", "contexts script"}, n \in 0..MaxScript :
                PoolInit(prog, n, 0)

NextPool ==
    \/ \E kind \in {"answer", "context"} : Submit(kind)
    \/ \E t \in DOMAIN futures : WorkerStart(t)
    \/ \E t \in DOMAIN futures, success \in BOOLEAN : FetchEnds(t, success)
    \/ \E t \in DOMAIN futures : AcquireLock(t)
    \/ \E t \in DOMAIN futures, ok \in BOOLEAN : ReadExcel(t, ok)
    \/ \E t \in DOMAIN futures, ok \in BOOLEAN : WriteExcel(t, ok)
    \/ \E t \in DOMAIN futures : Retry(t)
    \/ \E t \in DOMAIN futures, success \in BOOLEAN, tableOk \in BOOLEAN :
            Collect(t, success, tableOk)
    \/ PoolExit

SpecPool == InitPool /\ [][NextPool]_vars

\* ----------------------------------------------------------------- claims
\* the state right after the merge and the task lists of a resumed run
JustResumed == pc = "fetching" /\ handled = {} /\ previous_state.kind = "pickle"

\* the run resumes from the checkpoint the last returned run saved at its end
ResumesLastRun ==
    pc = "fetching" /\ lastRun.valid /\ lastRun.saved /\ previous_state.kind = "pickle"

\* C1: a run started on the same upload with the checkpoint of the last
\* completed run in place builds and issues no task for an index that run
\* had in answer_progress, resp. context_progress.
C1_ResumeIncremental ==
    ResumesLastRun =>
        /\ Range(answer_tasks) \cap lastRun.ap = {}
        /\ Range(context_tasks) \cap lastRun.cp = {}
        /\ \A t \in handled :
            /\ t[1] = "answer" => t[2] \notin lastRun.ap
            /\ t[1] = "context" => t[2] \notin lastRun.cp

\* a resumed run that still has work although a done index has an empty cell
C1_Witness ==
    /\ ResumesLastRun
    /\ handled # {}
    /\ \E i \in lastRun.ap : IsBlank(df[i].a)
    /\ \E i \in lastRun.cp : i \in DOMAIN df /\ IsBlank(df[i].c)

\* fetches applied in memory in this run that the file on disk does not hold
Unsaved ==
    Cardinality(appliedA \ Range(LoadState(file).answer_progress))
    + Cardinality(appliedC \ Range(LoadState(file).context_progress))

\* C2: at every point of a run at most SaveEvery (10) applied fetches are
\* missing from the persisted checkpoint.
C2_UnsavedAtMostK == pc = "fetching" => Unsaved <= SaveEvery

\* C3: after any call of save_processing_state a load returns the complete
\* checkpoint that was there before or the complete new one.
C3_AtomicSave ==
    saveLog.called =>
        \/ LoadState(file) = saveLog.wrote
        \/ LoadState(file) = saveLog.before

\* a failed answer task has left its answer, its reference note and
\* answer_progress as the merge made them
FailedUntouched ==
    pc \in {"fetching", "done"} =>
        \A i \in failedA :
            /\ i \notin answer_progress
            /\ IsBlank(df[i].a)
            /\ df[i].a = MergeRows(upload, previous_state)[i].a
            /\ df[i].r = MergeRows(upload, previous_state)[i].r

\* C4 as stated: a failed answer task leaves row and progress alone; after
\* the run answer_progress is exactly the succeeded tasks; the next run builds
\* answer tasks for exactly the failed ones.
C4_Original ==
    /\ FailedUntouched
    /\ pc = "done" => answer_progress = appliedA
    /\ (pc = "fetching" /\ lastRun.valid) => Range(answer_tasks) = lastRun.failedA

\* C4 amended: a failed answer task leaves row and progress alone; after the
\* run answer_progress is the progress restored from the checkpoint plus the
\* succeeded tasks; a next run that resumes from the checkpoint the run saved
\* at its end builds answer tasks for exactly the failed ones.
C4_FailedTasksRetried ==
    /\ FailedUntouched
    /\ pc = "done" =>
        /\ answer_progress = MergeAnswerProgress(upload, previous_state) \cup appliedA
        /\ appliedA \cap failedA = {}
        /\ appliedA \cup failedA = Range(answer_tasks)
    /\ ResumesLastRun => Range(answer_tasks) = lastRun.failedA

\* a resumed run after a run in which one answer task failed and one succeeded
C4_Witness ==
    /\ ResumesLastRun
    /\ lastRun.failedA # {}
    /\ lastRun.ap # {}
    /\ Range(answer_tasks) = lastRun.failedA

C6_Original ==
    saveLog.called =>
        /\ LoadState(file).kind = "pickle"
        /\ saveLog.ap \subseteq Range(LoadState(file).answer_progress)
        /\ saveLog.cp \subseteq Range(LoadState(file).context_progress)

\* C6 amended: a load right after a save that returned True returns a
\* checkpoint whose progress sets contain what was passed to the save.
C6_SaveThenLoad ==
    (saveLog.called /\ saveLog.ok) =>
        /\ LoadState(file).kind = "pickle"
        /\ saveLog.ap \subseteq Range(LoadState(file).answer_progress)
        /\ saveLog.cp \subseteq Range(LoadState(file).context_progress)

\* a successful save of two different non-empty progress sets
C6_Witness ==
    /\ saveLog.called
    /\ saveLog.ok
    /\ saveLog.ap # {}
    /\ saveLog.cp # {}
    /\ saveLog.ap # saveLog.cp

\* C7: right after the merge, a task of a kind exists for a row iff the
\* question is non-empty, the index is not in the progress set of the kind
\* and the field of the kind is empty; no task list names an index twice.
C7_TasksExact ==
    (pc = "fetching" /\ handled = {}) =>
        /\ \A i \in DOMAIN df :
            /\ i \in Range(answer_tasks) <=>
                (NotBlank(df[i].q) /\ i \notin answer_progress /\ ~NotBlank(df[i].a))
            /\ i \in Range(context_tasks) <=>
                (NotBlank(df[i].q) /\ i \notin context_progress /\ ~NotBlank(df[i].c))
        /\ Range(answer_tasks) \cup Range(context_tasks) \subseteq DOMAIN df
        /\ Cardinality(Range(answer_tasks)) = Len(answer_tasks)
        /\ Cardinality(Range(context_tasks)) = Len(context_tasks)

\* a resumed run with a row without question, a done index whose cell is
\* empty, and a task still to do
C7_Witness ==
    /\ JustResumed
    /\ \E i \in DOMAIN df : IsBlank(df[i].q)
    /\ \E i \in context_progress : IsBlank(df[i].c)
    /\ answer_tasks # <<>>

\* C8: whatever fetches fail, a run that has ended has processed the
\* completion of every task it built.
C8_AllTasksProcessed ==
    pc \in {"done", "aborted"} => handled = tasksBuilt

\* C9: no failure of a checkpoint write or of a periodic or final table write
\* ends the run before alignment.
C9_PersistenceNeverAborts == abortedAt \notin {"periodic", "final"}

\* C10: a run that has ended has made exactly one final save, with the
\* progress sets the run ended with.
C10_OneFinalSave ==
    /\ pc \in {"done", "aborted"} => Len(finalLog) = 1
    /\ pc = "done" =>
        /\ finalLog[1].ap = answer_progress
        /\ finalLog[1].cp = context_progress

\* C11: no two calls of save_processing_state for the same file_hash are in
\* progress at the same time, over all the sessions that process the upload.
C11_OneSaveAtATime ==
    Cardinality({s \in Sessions : session[s].at \in InSave}) <= 1

\* C12: no index leaves answer_progress or context_progress: not in a step
\* of a run (a completed task, a periodic save, the final save), not when a
\* run loads a checkpoint and merges it (it starts with at least the saved
\* sets), and not when a later run resumes from the checkpoint the last run
\* saved at its end.
C12_ProgressMonotone ==
    [][/\ (pc = "fetching" /\ pc' \in {"fetching", "done"}) =>
            /\ answer_progress \subseteq answer_progress'
            /\ context_progress \subseteq context_progress'
       /\ (pc # "fetching" /\ pc' = "fetching" /\ LoadState(file).kind = "pickle") =>
            /\ Range(file.answer_progress) \subseteq answer_progress'
            /\ Range(file.context_progress) \subseteq context_progress'
       /\ ResumesLastRun' =>
            /\ lastRun'.ap \subseteq answer_progress'
            /\ lastRun'.cp \subseteq context_progress'
      ]_vars

\* a resumed run that has handled a completion and holds more than both
\* progress sets of the run before
C12_Witness ==
    /\ ResumesLastRun
    /\ handled # {}
    /\ lastRun.ap # {}
    /\ lastRun.cp # {}
    /\ lastRun.ap # answer_progress
    /\ lastRun.cp # context_progress
    /\ lastRun.ap \subseteq answer_progress
    /\ lastRun.cp \subseteq context_progress

\* the filter as specified: question, answer and context present, the answer
\* not the unset value, and the context decoding (by the passage extraction)
\* to at least one non-blank passage
InReference(row) ==
    /\ NotBlank(row.q)
    /\ NotBlank(row.a)
    /\ row.a # "nan"
    /\ row.c.fmt \notin {"nan", "blank"}
    /\ \E passage \in Range(extract_contexts_from_contexts_column(row.c)) :
            NotBlank(passage)

\* aligned_data is the reference filter of records, in input order
AlignedAsReference ==
    /\ aligned_from = SelectSeq(Indices(records), LAMBDA i : InReference(records[i]))
    /\ Len(aligned_data) = Len(aligned_from)
    /\ \A k \in DOMAIN aligned_data :
        /\ aligned_data[k].question = Strip(records[aligned_from[k]].q)
        /\ aligned_data[k].answer = Strip(records[aligned_from[k]].a)
        /\ aligned_data[k].contexts =
                extract_contexts_from_contexts_column(records[aligned_from[k]].c)
        /\ aligned_data[k].ground_truth = aligned_data[k].answer
    /\ skipped_count = Len(records) - Len(aligned_data)

OwnPassages(row) ==
    SelectSeq(ExtractedPassages(row.c), LAMBDA passage : Strip(passage) # "")

\* C14: every aligned record holds at least one passage extracted from the
\* Contexts text of its own row; a row whose text yields no non-blank
\* passage is left out.
C14_NoPassageNoRecord ==
    stage # "input" =>
        /\ \A k \in DOMAIN aligned_data :
            Range(aligned_data[k].contexts) \cap Range(OwnPassages(records[aligned_from[k]])) # {}
        /\ \A i \in DOMAIN records :
            OwnPassages(records[i]) = <<>> => i \notin Range(aligned_from)

\* C15: the records align_data_for_evaluation produced all pass the
\* completeness checks of evaluate_dataset: the valid samples are the aligned
\* records, in the same order, and none is counted invalid.
C15_AlignIdempotent ==
    (stage = "evaluated" /\ aligned_data # <<>>) =>
        /\ valid_samples = aligned_data
        /\ invalid_count = 0

\* an evaluation of two or more aligned records, one of them with a blank
\* passage beside a real one, after align skipped a row
C15_Witness ==
    /\ stage = "evaluated"
    /\ Len(valid_samples) >= 2
    /\ skipped_count >= 1
    /\ \E k \in DOMAIN aligned_data : "" \in Range(aligned_data[k].contexts)

\* C16: with no aligned record, or with no known metric selected,
\* evaluate_dataset returns no result and evaluate() is never called.
C16_FailFast ==
    (stage = "evaluated" /\ (aligned_data = <<>> \/ Metrics(selected_metrics) = <<>>)) =>
        /\ result = NoResult
        /\ score_calls = 0

\* an evaluation of aligned records with a selection that names no known
\* metric
C16_Witness ==
    /\ stage = "evaluated"
    /\ aligned_data # <<>>
    /\ selected_metrics # <<>>
    /\ Metrics(selected_metrics) = <<>>
    /\ result = NoResult

\* a retry loop has just ended: run_evaluation returned or raised, or
\* _evaluate_batch returned to run_batch_evaluation
LoopJustEnded ==
    \/ mode = "direct" /\ at = "done"
    \/ mode = "batch" /\ batches # <<>> /\ (at = "done" \/ (at = "call" /\ attempt = 0))

\* what that loop returned
LoopResult == IF mode = "direct" THEN returned ELSE batches[Len(batches)].result

\* the bounds of the rate-limit wait after failed attempt a (a counts from 0)
RateLimitWaits(a) ==
    (base_delay * Power(4, a) + 10)..(base_delay * Power(4, a) + 30)

\* C17: when evaluate() raises a rate-limit error in attempts 1 and 2 and
\* returns in attempt 3, the loop returns the result of attempt 3, the wait
\* before attempt 2 is within [15, 35] and the wait before attempt 3 within
\* [30, 50], in run_evaluation as well as in _evaluate_batch.
C17_RateLimitScenario ==
    (/\ LoopJustEnded
     /\ LoopResult.kind = "result"
     /\ Len(waits) = 2
     /\ \A k \in DOMAIN waits : IsRateLimit(waits[k].error)) =>
        /\ LoopResult.attempt = 2
        /\ waits[1].wait \in RateLimitWaits(0)
        /\ waits[2].wait \in RateLimitWaits(1)

\* C18: in _evaluate_batch the wait after failed attempt a follows the class
\* of the error text: a text with a rate/limit signature, whatever else it
\* holds, waits within [5*4^a + 10, 5*4^a + 30]; a connection/timeout text
\* within [5*3^a + 5, 5*3^a + 15]; any other text within [6, 10].
C18_WaitByClass ==
    (mode = "batch" /\ at = "sleep") =>
        LET failure == waits[Len(waits)]
        IN  /\ IsRateLimit(failure.error) => failure.wait \in RateLimitWaits(attempt)
            /\ (IsConnection(failure.error) /\ ~IsRateLimit(failure.error)) =>
                    failure.wait \in (base_delay * Power(3, attempt) + 5)..
                                     (base_delay * Power(3, attempt) + 15)
            /\ (~IsConnection(failure.error) /\ ~IsRateLimit(failure.error)) =>
                    failure.wait \in (base_delay + 1)..(base_delay + 5)

\* C19: in one retry loop evaluate() is called at most max_retries times and
\* never while another call is under way; an attempt after the first starts
\* only from the sleep that followed the failure of the attempt before it,
\* and never after a call of evaluate() in this loop returned a result; a
\* result ends the loop and is what the loop returns; there is no sleep
\* after the last failed attempt.
C19_RetryLoopBounded ==
    [][/\ in_flight' <= 1
       /\ calls' <= max_retries
       /\ (at = "call" /\ at' = "scoring") => (in_flight = 0 /\ Len(waits') = attempt)
       /\ (at = "call" /\ at' = "scoring" /\ attempt > 0) => scored = 0
       /\ (at # "call" /\ at' = "call" /\ attempt' > 0) =>
            (at = "sleep" /\ attempt' = attempt + 1 /\ Len(waits) = attempt')
       /\ (mode = "direct" /\ returned'.kind = "result" /\ returned.kind # "result") =>
            (at' = "done" /\ returned'.attempt = attempt)
       /\ Len(all_results') > Len(all_results) =>
            /\ all_results'[Len(all_results')].attempt = attempt
            /\ at' = "done" \/ (at' = "call" /\ attempt' = 0 /\ batch_index' = batch_index + 1)
       /\ at' = "sleep" => attempt' < max_retries - 1
      ]_vars

\* C20: the batches of run_batch_evaluation are consecutive, of batch_size
\* samples (the last may be shorter) and cover the dataset in order; every
\* batch is scored whatever happened to the batches before it; the call
\* returns the result of the first batch that succeeded, and None only when
\* none did.
C20_ChunkedMode ==
    mode = "batch" =>
        /\ \A k \in DOMAIN batches :
            /\ batches[k].start = IF k = 1 THEN 0 ELSE batches[k - 1].stop
            /\ batches[k].stop - batches[k].start \in 1..batch_size
            /\ batches[k].stop < total_samples =>
                    batches[k].stop - batches[k].start = batch_size
        /\ at = "done" =>
            /\ IF total_samples = 0
               THEN batches = <<>>
               ELSE batches # <<>> /\ batches[Len(batches)].stop = total_samples
            /\ LET good == {k \in DOMAIN batches : batches[k].result.kind = "result"}
               IN  IF good = {}
                   THEN returned = NoneReturned
                   ELSE returned = batches[CHOOSE k \in good : \A j \in good : k <= j].result

\* three batches, the last one shorter; the first failed, the two after it
\* were scored, and the result is the second batch's
C20_Witness ==
    /\ mode = "batch"
    /\ at = "done"
    /\ Len(batches) = 3
    /\ batches[1].result.kind = "none"
    /\ batches[2].result.kind = "result"
    /\ batches[3].result.kind = "result"
    /\ batches[3].stop - batches[3].start < batch_size
    /\ returned = batches[2].result

\* C21: whenever the number of scored rows differs from the number of records,
\* each consumer that joins them (display_evaluation_results, save_results)
\* completes normally with both sides cut to the shorter length, the display
\* after a warning.
C21_MismatchNeverCrashes ==
    LET min_length == Min(Len(results_df), Len(evaluation_data))
        cut == DataFrame(FirstRows(evaluation_data, min_length), FirstRows(results_df, min_length))
    IN  Len(results_df) # Len(evaluation_data) =>
            /\ display_at # "raised"
            /\ display_at = "done" => (warnings = 1 /\ detailed_df = cut)
            /\ save_at # "raised"
            /\ save_at = "done" => saved_df = cut

\* C22: the audit of run_evaluation is read-only: whatever zeros and missing
\* values the scores hold, the result run_evaluation returns is the result
\* evaluate() returned, every score unchanged.
C22_AuditReadOnly ==
    (mode = "direct" /\ returned.kind = "result") =>
        /\ returned = evaluated
        /\ returned.scores \in ScoreSheets

\* run_evaluation returned a result whose scores hold zeros and missing values
C22_Witness ==
    /\ mode = "direct"
    /\ at = "done"
    /\ returned.kind = "result"
    /\ returned.scores.zeros
    /\ returned.scores.nans

\* C23: a sweep deletes a state file only when a tier holds for it: older than
\* 14 days; or older than 7 days while the directory exceeds 100 MB; or older
\* than 3 days while it lists more than 50 state files.  So a file at most 3
\* days old is never deleted, and within both limits only files older than 14
\* days are.
C23_SweepTiers ==
    LET big == found_size_mb > SizeLimit
        many == Len(state_dir) + fresh_count > CountLimit
    IN  swept =>
            /\ \A i \in deleted :
                    \/ state_dir[i].age > 14
                    \/ state_dir[i].age > 7 /\ big
                    \/ state_dir[i].age > 3 /\ many
            /\ \A i \in deleted : state_dir[i].age > 3
            /\ ~fresh_deleted
            /\ (~big /\ ~many) => \A i \in deleted : state_dir[i].age > 14

\* a sweep of a directory over both limits deleted a file by the size tier
\* and one by the count tier, and kept a file 3 days old
C23_Witness ==
    /\ swept
    /\ found_size_mb > SizeLimit
    /\ Len(state_dir) + fresh_count > CountLimit
    /\ \E i \in deleted : state_dir[i].age = 8
    /\ \E i \in deleted : state_dir[i].age = 4
    /\ \E i \in DOMAIN state_dir \ deleted : state_dir[i].age = 3

\* C24: whenever the state file of the upload is absent or cannot be read
\* back as a checkpoint, load_processing_state returns None, and the run
\* starts as one without a checkpoint: empty progress sets, the uploaded table
\* as it is, the tasks built from it.
C24_LoadFailsSoft ==
    [][(pc # "fetching" /\ pc' = "fetching" /\ file.kind # "pickle") =>
            /\ previous_state' = None
            /\ answer_progress' = {}
            /\ context_progress' = {}
            /\ df' = upload
            /\ answer_tasks' = BuildAnswerTasks(upload, {})
            /\ context_tasks' = BuildContextTasks(upload, {})]_vars

\* a run has started from a state file that an interrupted write left behind
C24_Witness ==
    /\ pc = "fetching"
    /\ handled = {}
    /\ file = Corrupt
    /\ previous_state = None
    /\ upload # <<>>
    /\ df = upload

\* the tasks whose worker is between `with file_lock` and the end of the block
InsideLock == {t \in DOMAIN futures : futures[t] \in {"read", "write"}}

\* C25: no two mutations of one shared resource are in progress at once.  In
\* app.py df and the progress sets change only in a step of the coordinating
\* loop that handles one completed future, never in a step of a worker.  In
\* the stand-alone scripts at most one worker is inside the read-modify-write
\* of the Excel file, it holds file_lock, and the file changes only by the
\* write of that worker, which keeps the rows written before.
C25_OneMutationAtATime ==
    [][/\ table' # table =>
            /\ program = "app"
            /\ \E t \in DOMAIN futures :
                    /\ futures[t] = "finished"
                    /\ futures' = [futures EXCEPT ![t] = "collected"]
                    /\ table' = table \cup {t}
       /\ Cardinality(InsideLock') <= 1
       /\ \A t \in InsideLock' : file_lock' = t
       /\ excel' # excel =>
            /\ program # "app"
            /\ \E t \in InsideLock :
                    /\ file_lock = t
                    /\ futures[t] = "write"
                    /\ futures' = [futures EXCEPT ![t] = "finished"]
                    /\ excel' = excel \cup {t}]_vars

\* in a script one worker is inside its read-modify-write of the Excel file
\* while another, whose earlier attempt failed, waits for the lock
C25_Witness ==
    /\ program # "app"
    /\ \E t \in DOMAIN futures, u \in DOMAIN futures :
            /\ futures[t] = "write"
            /\ file_lock = t
            /\ futures[u] = "lock"
            /\ attempts[u] > 0

\* the record has an empty question, an empty answer, or contexts that are
\* empty or all blank
Incomplete(item) ==
    \/ item.question = ""
    \/ item.answer = ""
    \/ item.contexts = <<>>
    \/ \A k \in DOMAIN item.contexts : item.contexts[k] \in {"", " "}

\* C26: the re-validation of evaluate_dataset drops exactly the incomplete
\* records and keeps the others in their order; dropped plus kept is the
\* number of input records; the kept records are what is scored, and with a
\* metric selected the scorer is called whenever a record was kept.
C26_Revalidation ==
    (stage = "evaluated" /\ aligned_data # <<>>) =>
        /\ valid_samples = SelectSeq(aligned_data, LAMBDA item : ~Incomplete(item))
        /\ invalid_count = Cardinality({k \in DOMAIN aligned_data : Incomplete(aligned_data[k])})
        /\ invalid_count + Len(valid_samples) = Len(aligned_data)
        /\ result.kind = "result" => result.rows = valid_samples
        /\ score_calls = (IF valid_samples # <<>> /\ Metrics(selected_metrics) # <<>>
                          THEN 1 ELSE 0)

\* an evaluation that dropped the first record and scored the second
C26_Witness ==
    /\ stage = "evaluated"
    /\ Len(aligned_data) = 2
    /\ Incomplete(aligned_data[1])
    /\ invalid_count = 1
    /\ result.kind = "result"
    /\ result.rows = <<aligned_data[2]>>

\* C27: in a run of process_method2_file at most 5 fetch requests are in
\* flight at any moment, of either kind and in total, and no context fetch
\* is submitted before every answer fetch has ended.
C27_BoundedParallelism ==
    program = "app" =>
        /\ Cardinality(Busy(futures)) <= 5
        /\ \A kind \in {"answer", "context"} :
                Cardinality(Busy(futures) \cap Of(futures, kind)) <= 5
        /\ \A c \in Of(futures, "context") :
                futures[c] # "unsubmitted" =>
                    \A a \in Of(futures, "answer") : futures[a] \in {"finished", "collected"}

\* five answer fetches are in flight while a sixth waits in the queue
C27_Witness ==
    /\ program = "app"
    /\ phase = "answers"
    /\ Cardinality(Busy(futures)) = 5
    /\ \E t \in DOMAIN futures : futures[t] = "queued"

\* the futures of the kind that the loop has handled in this run
Handled(kind) == {h \in handled : h[1] = kind}

\* C28: once the pool of a kind is exhausted, the successes and the failures
\* of the kind add up to the tasks attempted, which are the tasks built for
\* it, and the successes are as many as the indices the run added to the
\* progress set of the kind; completed_tasks never exceeds the number of
\* tasks and equals it when both pools are exhausted.
C28_CountsConsistent ==
    LET total_tasks == Len(answer_tasks) + Len(context_tasks)
        addedA == answer_progress \ MergeAnswerProgress(upload, previous_state)
        addedC == context_progress \ MergeContextProgress(upload, previous_state)
        failedC == {h[2] : h \in Handled("context")} \ appliedC
    IN  pc \in {"fetching", "done"} =>
            /\ completed_tasks <= total_tasks
            /\ pendingA = {} =>
                    /\ Cardinality(Handled("answer")) = Len(answer_tasks)
                    /\ Handled("answer") = {t \in tasksBuilt : t[1] = "answer"}
                    /\ successful_answers + Cardinality(failedA) = Len(answer_tasks)
                    /\ successful_answers = Cardinality(addedA)
            /\ (pendingA = {} /\ pendingC = {}) =>
                    /\ Cardinality(Handled("context")) = Len(context_tasks)
                    /\ Handled("context") = {t \in tasksBuilt : t[1] = "context"}
                    /\ successful_contexts + Cardinality(failedC) = Len(context_tasks)
                    /\ successful_contexts = Cardinality(addedC)
                    /\ completed_tasks = total_tasks

\* both pools are exhausted after one answer fetch succeeded, one failed and a
\* context fetch succeeded
C28_Witness ==
    /\ pc = "fetching"
    /\ pendingA = {}
    /\ pendingC = {}
    /\ successful_answers = 1
    /\ Cardinality(failedA) = 1
    /\ successful_contexts >= 1

\* C29: done implies populated: in every state of a run and in every saved
\* checkpoint, each index of the answer progress set has a non-empty answer
\* and each index of the context progress set a non-empty Contexts cell,
\* whatever payload a successful fetch returned.
C29_DoneImpliesPopulated ==
    /\ pc \in {"fetching", "done"} =>
            /\ \A i \in answer_progress : NotBlank(df[i].a)
            /\ \A i \in context_progress : NotBlank(df[i].c)
    /\ file.kind = "pickle" =>
            /\ \A i \in Range(file.answer_progress) : NotBlank(file.df[i].a)
            /\ \A i \in Range(file.context_progress) : NotBlank(file.df[i].c)

\* C30: in run_evaluation a call of evaluate() that returned a result is
\* never repeated and its result is never lost: once a call has returned a
\* result the loop is over and that result is what run_evaluation returns,
\* even when the audit of the result raises.
C30_SuccessKept ==
    (mode = "direct" /\ scored > 0) =>
        /\ scored = 1
        /\ at = "done"
        /\ returned = evaluated

====
